---- MODULE Spec2Model ----
(***************************************************************************)
(* Model of src/multi-tool-agent/agent.py: the tools (get_weather,         *)
(* say_hello, say_goodbye), the agent tree (root_agent and its children),  *)
(* the turn driver call_agent_async and create_session_and_runner.         *)
(*                                                                         *)
(* Strings are sequences of symbols.  A symbol is one character, or a      *)
(* fixed run of characters that no operation of the program splits.  The   *)
(* module is ASCII: "a_grave" is the letter a with a grave accent,         *)
(* "o_circ_dot" the letter o with circumflex and dot below, "[warn]" the   *)
(* warning sign the source writes in front of its warning texts, and the   *)
(* Vietnamese phrases are written without their diacritics.                *)
(*                                                                         *)
(* A Python Optional[str] is a record [kind, chars]: kind "str" with the   *)
(* symbols in chars, or kind "None".                                       *)
(***************************************************************************)
EXTENDS Integers, Sequences, FiniteSets, TLC

VARIABLES
    city,                 \* get_weather: the argument as the caller supplied it
    weather_result,       \* get_weather: the dict it returned
    utterance,            \* routing: the utterance of the turn being resolved
    utterance_class,      \* routing: how the engine classified it
    active_agent,         \* routing: the agent in control of the turn
    tool_calls,           \* routing: the tool invocations of the turn, in order
    hops,                 \* routing: delegation hops taken in the turn
    r_pc,                 \* routing: "idle", "resolving", "handling", "finished"
    stores,               \* every InMemorySessionService built so far, in order
    pc,                   \* call_agent_async: "idle", "loop", "done"
    query,                \* call_agent_async: its query argument
    runner,               \* call_agent_async: its runner argument (index in stores)
    event,                \* call_agent_async: the loop variable, last event pulled
    final_response_text,  \* call_agent_async: the local of that name
    response,             \* the value the last call returned (main's `response`)
    pulled,               \* events pulled from run_async in this call
    firstFinal,           \* position of the first final-response event pulled (0: none)
    firstFinalEvent,      \* that event
    hist0,                \* the session's history when the call started
    turns                 \* calls of call_agent_async started so far

vars == <<city, weather_result, utterance, utterance_class, active_agent,
          tool_calls, hops, r_pc, stores, pc, query, runner, event,
          final_response_text, response, pulled, firstFinal, firstFinalEvent,
          hist0, turns>>

weatherVars == <<city, weather_result>>
routingVars == <<utterance, utterance_class, active_agent, tool_calls, hops, r_pc>>
turnVars == <<stores, pc, query, runner, event, final_response_text, response,
              pulled, firstFinal, firstFinalEvent, hist0, turns>>

-----------------------------------------------------------------------------
(* Bounds *)

MaxCityLen == 8
MaxToolCalls == 2
MaxStores == 2
MaxTurns == 2
MaxEvents == 3

-----------------------------------------------------------------------------
(* Python values *)

None == [kind |-> "None", chars |-> <<>>]
Str(s) == [kind |-> "str", chars |-> s]

\* bool(x) for an Optional[str]: None and "" are falsy
TruthyStr(x) == x.kind = "str" /\ x.chars # <<>>

\* needle in haystack, for strings
Contains(haystack, needle) ==
    \E i \in 1..(Len(haystack) - Len(needle) + 1) :
        SubSeq(haystack, i, i + Len(needle) - 1) = needle

-----------------------------------------------------------------------------
(* STEP 1: tools *)

\* str.lower(), one character
LowerChar(c) ==
    CASE c = "H" -> "h"
      [] c = "N" -> "n"
      [] c = "T" -> "t"
      [] c = "L" -> "l"
      [] c = "A" -> "a"
      [] c = "O" -> "o"
      [] c = "A_grave" -> "a_grave"
      [] c = "O_circ_dot" -> "o_circ_dot"
      [] OTHER -> c

Lower(s) == [i \in 1..Len(s) |-> LowerChar(s[i])]

RECURSIVE RemoveSpaces(_)
RemoveSpaces(s) ==
    IF s = <<>> THEN <<>>
    ELSE IF Head(s) = " " THEN RemoveSpaces(Tail(s))
    ELSE <<Head(s)>> \o RemoveSpaces(Tail(s))

\* city.lower().replace(" ", "")
NormalizeNoLower(c) == RemoveSpaces(c)
Normalize(c) == RemoveSpaces(Lower(c))

HaNoiReport == <<"[sun]", " ", "H", "a_grave", " ", "N", "o_circ_dot", "i", ": Nang dep, 25C">>
LondonReport == <<"[cloud]", " ", "L", "o", "n", "d", "o", "n", ": Nhieu may, 15C">>
TokyoReport == <<"[rain]", " ", "T", "o", "k", "y", "o", ": Mua nhe, 18C">>

mock_weather_db ==
    (<<"h", "a", "n", "o", "i">> :> [status |-> "success", report |-> HaNoiReport])
    @@ (<<"h", "a_grave", "n", "o_circ_dot", "i">> :> [status |-> "success", report |-> HaNoiReport])
    @@ (<<"l", "o", "n", "d", "o", "n">> :> [status |-> "success", report |-> LondonReport])
    @@ (<<"t", "o", "k", "y", "o">> :> [status |-> "success", report |-> TokyoReport])

get_weather(c) ==
    LET city_normalized == Normalize(c) IN
    IF city_normalized \in DOMAIN mock_weather_db
    THEN mock_weather_db[city_normalized]
    ELSE [status |-> "error",
          error_message |-> <<"Xin loi, khong co thong tin thoi tiet cho '">> \o c \o <<"'.">>]

say_hello(name) ==
    IF TruthyStr(name) THEN <<"[wave]", " Xin chao, ">> \o name.chars \o <<"!">>
    ELSE <<"[wave]", " Xin chao!">>

say_goodbye == <<"[wave]", " Tam biet! Chuc ban mot ngay tot lanh! ", "[sparkles]">>

\* the tool bodies by name, as the engine invokes them (a str result boxed)
InvokeTool(tool, arg) ==
    CASE tool = "get_weather" -> get_weather(arg.chars)
      [] tool = "say_hello" -> Str(say_hello(arg))
      [] tool = "say_goodbye" -> Str(say_goodbye)

\* What a caller may type: fragments in a row, MaxCityLen characters at most.
CityFragments ==
    { <<"H", "a">>, <<"n", "o", "i">>, <<"N", "o", "i">>, <<" ">>,
      <<"T", "o">>, <<"k", "y", "o">>, <<"L", "O", "N">>, <<"d", "o", "n">>,
      <<"H", "A_grave">>, <<"N", "o_circ_dot", "i">>, <<"A", "t", "l", "a", "n", "t", "i", "s">> }

NotCalled == [status |-> "not_called"]

InitWeatherVars == city = <<>> /\ weather_result = NotCalled

\* the caller builds the argument
TypeFragment(f) ==
    /\ weather_result = NotCalled
    /\ Len(city) + Len(f) <= MaxCityLen
    /\ city' = city \o f
    /\ UNCHANGED weather_result

CallGetWeather ==
    /\ weather_result = NotCalled
    /\ weather_result' = get_weather(city)
    /\ UNCHANGED city

\* the caller starts on the next argument
NextCity ==
    /\ weather_result # NotCalled
    /\ city' = <<>>
    /\ weather_result' = NotCalled

-----------------------------------------------------------------------------
(* STEP 2 and 3: the agents.  handles is the concern the agent's description *)
(* and instruction declare; tools and sub_agents are the lists it is built   *)
(* with.                                                                     *)

greeting_agent_with_weather ==
    [name |-> "greeting_agent", handles |-> "greeting",
     tools |-> {"say_hello", "get_weather"}, sub_agents |-> <<>>]

greeting_agent ==
    [name |-> "greeting_agent", handles |-> "greeting",
     tools |-> {"say_hello"}, sub_agents |-> <<>>]

weather_agent ==
    [name |-> "weather_agent", handles |-> "weather",
     tools |-> {"get_weather"}, sub_agents |-> <<>>]

farewell_agent ==
    [name |-> "farewell_agent", handles |-> "farewell",
     tools |-> {"say_goodbye"}, sub_agents |-> <<>>]

root_agent ==
    [name |-> "weather_assistant_team", handles |-> "weather",
     tools |-> {"get_weather"}, sub_agents |-> <<greeting_agent, farewell_agent>>]

Children(agent) == { agent.sub_agents[i] : i \in 1..Len(agent.sub_agents) }

AgentTree == {root_agent} \cup Children(root_agent)

AgentByName(n) == CHOOSE a \in AgentTree : a.name = n

-----------------------------------------------------------------------------
(* Routing of one turn over the agent tree: the resolution policy the root  *)
(* agent's instruction expresses and the reasoning engine executes.         *)

Classes == {"greeting", "farewell", "weather", "other"}

\* the utterances main() sends
Utterances ==
    { <<"Xin chao!">>, <<"Thoi tiet o Ha Noi the nao?">>,
      <<"Con London thi sao?">>, <<"Cam on, tam biet!">> }

\* arguments the engine derives for a tool call
ToolArgs(tool) ==
    CASE tool = "get_weather" -> { Str(<<"T", "o", "k", "y", "o">>),
                                   Str(<<"A", "t", "l", "a", "n", "t", "i", "s">>) }
      [] tool = "say_hello" -> { None, Str(<<"A", "n">>) }
      [] tool = "say_goodbye" -> { None }

\* the children of agent whose declared responsibility matches the class
MatchingChildren(agent, class) == { c \in Children(agent) : c.handles = class }

InitRoutingVars ==
    /\ utterance = <<>>
    /\ utterance_class = "other"
    /\ active_agent = root_agent.name
    /\ tool_calls = <<>>
    /\ hops = 0
    /\ r_pc = "idle"

\* a turn reaches the root agent; the engine classifies the utterance
StartResolve(u, class) ==
    /\ r_pc \in {"idle", "finished"}
    /\ utterance' = u
    /\ utterance_class' = class
    /\ active_agent' = root_agent.name
    /\ tool_calls' = <<>>
    /\ hops' = 0
    /\ r_pc' = "resolving"

\* 1. a child's responsibility matches: control transfers to that child
Delegate ==
    /\ r_pc = "resolving"
    /\ \E c \in MatchingChildren(AgentByName(active_agent), utterance_class) :
           active_agent' = c.name
    /\ hops' = hops + 1
    /\ UNCHANGED <<utterance, utterance_class, tool_calls, r_pc>>

\* 2. no child matches and the utterance is the agent's own concern: it
\*    handles the turn with its own tools
HandleOwn ==
    /\ r_pc = "resolving"
    /\ MatchingChildren(AgentByName(active_agent), utterance_class) = {}
    /\ AgentByName(active_agent).handles = utterance_class
    /\ r_pc' = "handling"
    /\ UNCHANGED <<utterance, utterance_class, active_agent, tool_calls, hops>>

\* 3. neither: a polite decline, no tool call
Decline ==
    /\ r_pc = "resolving"
    /\ MatchingChildren(AgentByName(active_agent), utterance_class) = {}
    /\ AgentByName(active_agent).handles # utterance_class
    /\ r_pc' = "finished"
    /\ UNCHANGED <<utterance, utterance_class, active_agent, tool_calls, hops>>

\* the agent in control invokes one of the tools it owns
CallTool ==
    /\ r_pc = "handling"
    /\ Len(tool_calls) < MaxToolCalls
    /\ \E t \in AgentByName(active_agent).tools : \E a \in ToolArgs(t) :
           tool_calls' = Append(tool_calls,
               [agent |-> active_agent, tool |-> t, result |-> InvokeTool(t, a)])
    /\ UNCHANGED <<utterance, utterance_class, active_agent, hops, r_pc>>

\* the agent in control ends the turn with its final text
FinishTurn ==
    /\ r_pc = "handling"
    /\ r_pc' = "finished"
    /\ UNCHANGED <<utterance, utterance_class, active_agent, tool_calls, hops>>

-----------------------------------------------------------------------------
(* STEP 4: events, as call_agent_async reads them *)

Part(text) == [text |-> text]
NoneParts == [kind |-> "None", items |-> <<>>]
List(items) == [kind |-> "list", items |-> items]
NoneContent == [kind |-> "None", parts |-> NoneParts]
Content(parts) == [kind |-> "Content", parts |-> parts]
NoneActions == [kind |-> "None", escalate |-> "False"]
EventActions(escalate) == [kind |-> "EventActions", escalate |-> escalate]

Hello == <<"Hello!">>
InternalTimeout == <<"internal timeout">>
\* a text the model may write that reads like the program's own warning
LooksLikeWarning == <<"[warn]", " Agent escalated: ", "internal timeout">>

Contents ==
    { NoneContent, Content(NoneParts), Content(List(<<>>)),
      Content(List(<<Part(None)>>)),
      Content(List(<<Part(Str(Hello))>>)),
      Content(List(<<Part(Str(LooksLikeWarning)), Part(Str(Hello))>>)) }

Actions == { NoneActions, EventActions("None"), EventActions("False"), EventActions("True") }

ErrorMessages == { None, Str(<<>>), Str(InternalTimeout) }

\* final is what event.is_final_response() answers
Events == [final : BOOLEAN, content : Contents, actions : Actions,
           error_message : ErrorMessages]

\* the events of the session runs: one intermediate, one final with text, one
\* final with neither content nor escalation
SessionEvents ==
    { [final |-> FALSE, content |-> NoneContent, actions |-> NoneActions, error_message |-> None],
      [final |-> TRUE, content |-> Content(List(<<Part(Str(Hello))>>)),
       actions |-> NoneActions, error_message |-> None],
      [final |-> TRUE, content |-> NoneContent, actions |-> NoneActions, error_message |-> None] }

NoEvent == [kind |-> "unset"]
Unset == [kind |-> "unset", chars |-> <<>>]

\* event.content and event.content.parts
HasParts(e) ==
    /\ e.content.kind # "None"
    /\ e.content.parts.kind = "list"
    /\ e.content.parts.items # <<>>

\* event.actions and event.actions.escalate
Escalates(e) == e.actions.kind # "None" /\ e.actions.escalate = "True"

NoResponseText == <<"[warn]", " Agent khong tao ra response.">>
EscalatedPrefix == <<"[warn]", " Agent escalated: ">>
NoMessage == <<"Khong co message.">>

\* f"... Agent escalated: {event.error_message or '...'}"
EscalatedTextNoFallback(e) ==
    EscalatedPrefix \o (IF e.error_message.kind = "None" THEN <<"None">> ELSE e.error_message.chars)

EscalatedText(e) ==
    EscalatedPrefix \o (IF TruthyStr(e.error_message) THEN e.error_message.chars ELSE NoMessage)

\* final_response_text before the loop
InitialResponseTextNone == None
InitialResponseText == Str(NoResponseText)

\* the loop body's assignment to final_response_text for event e
CapturedTextEscalateFirst(e, text) ==
    IF e.final
    THEN IF Escalates(e) THEN Str(EscalatedText(e))
         ELSE IF HasParts(e) THEN e.content.parts.items[1].text
         ELSE text
    ELSE text

CapturedText(e, text) ==
    IF e.final
    THEN IF HasParts(e) THEN e.content.parts.items[1].text
         ELSE IF Escalates(e) THEN Str(EscalatedText(e))
         ELSE text
    ELSE text

\* whether the loop body reaches `break` on event e
BreaksNever(e) == FALSE
Breaks(e) == e.final

-----------------------------------------------------------------------------
(* The session history, which the Runner writes while a turn runs *)

Message(role, text) == [role |-> role, text |-> text]

\* the incoming message is appended before reasoning begins
RunnerAppendUser(history, q) == Append(history, Message("user", Str(q)))

\* a final event's captured content text is appended as the agent's message
RunnerAppendAgent(history, e) ==
    IF e.final /\ HasParts(e)
    THEN Append(history, Message("agent", e.content.parts.items[1].text))
    ELSE history

-----------------------------------------------------------------------------
(* Sessions and turns *)

AppNames == {"Weather Agent Demo", "Weather Agent Team Demo"}
UserIds == {"user_1"}
SessionIds == {"session_001"}

Queries == { <<"Xin chao!">>, <<"Cam on, tam biet!">> }

\* InMemorySessionService() followed by create_session(...): a new store
\* holding one session, whose history is empty
FreshStore(app_name, user_id, session_id) ==
    [ident |-> <<app_name, user_id, session_id>>, history |-> <<>>]

\* the session the runner bound to store r looks up for (user_id, session_id)
SessionExists(r, user_id, session_id) ==
    /\ r \in 1..Len(stores)
    /\ stores[r].ident = <<stores[r].ident[1], user_id, session_id>>

InitTurnVars ==
    /\ stores = <<>>
    /\ pc = "idle"
    /\ query = <<>>
    /\ runner = 0
    /\ event = NoEvent
    /\ final_response_text = Unset
    /\ response = Unset
    /\ pulled = 0
    /\ firstFinal = 0
    /\ firstFinalEvent = NoEvent
    /\ hist0 = <<>>
    /\ turns = 0

CreateSessionAndRunner(app_name, user_id, session_id) ==
    /\ pc # "loop"
    /\ Len(stores) < MaxStores
    /\ stores' = Append(stores, FreshStore(app_name, user_id, session_id))
    /\ UNCHANGED <<pc, query, runner, event, final_response_text, response,
                   pulled, firstFinal, firstFinalEvent, hist0, turns>>

\* call_agent_async up to its first suspension: the locals are set and the
\* Runner takes the new message
CallAgentAsync(q, r, user_id, session_id) ==
    /\ pc # "loop"
    /\ turns < MaxTurns
    /\ SessionExists(r, user_id, session_id)
    /\ query' = q
    /\ runner' = r
    /\ final_response_text' = InitialResponseText
    /\ hist0' = stores[r].history
    /\ stores' = [stores EXCEPT ![r].history = RunnerAppendUser(@, q)]
    /\ event' = NoEvent
    /\ response' = Unset
    /\ pulled' = 0
    /\ firstFinal' = 0
    /\ firstFinalEvent' = NoEvent
    /\ turns' = turns + 1
    /\ pc' = "loop"

\* one iteration of the async for: the engine yields e
PullEvent(e) ==
    /\ pc = "loop"
    /\ pulled < MaxEvents
    /\ event' = e
    /\ pulled' = pulled + 1
    /\ firstFinal' = IF firstFinal = 0 /\ e.final THEN pulled + 1 ELSE firstFinal
    /\ firstFinalEvent' = IF firstFinal = 0 /\ e.final THEN e ELSE firstFinalEvent
    /\ final_response_text' = CapturedText(e, final_response_text)
    /\ stores' = [stores EXCEPT ![runner].history = RunnerAppendAgent(@, e)]
    /\ IF Breaks(e)
       THEN pc' = "done" /\ response' = final_response_text'
       ELSE pc' = "loop" /\ UNCHANGED response
    /\ UNCHANGED <<query, runner, hist0, turns>>

\* the engine's sequence ends: the loop falls through to the return
EndOfEvents ==
    /\ pc = "loop"
    /\ pc' = "done"
    /\ response' = final_response_text
    /\ UNCHANGED <<stores, query, runner, event, final_response_text, pulled,
                   firstFinal, firstFinalEvent, hist0, turns>>

-----------------------------------------------------------------------------
(* Specifications *)

Init == InitWeatherVars /\ InitRoutingVars /\ InitTurnVars

\* main(): one session and runner, then turns on it, one after the other
Next ==
    \/ /\ stores = <<>>
       /\ CreateSessionAndRunner("Weather Agent Team Demo", "user_1", "session_001")
       /\ UNCHANGED <<weatherVars, routingVars>>
    \/ \E q \in Queries, r \in 1..MaxStores, u \in UserIds, s \in SessionIds :
           CallAgentAsync(q, r, u, s) /\ UNCHANGED <<weatherVars, routingVars>>
    \/ \E e \in Events : PullEvent(e) /\ UNCHANGED <<weatherVars, routingVars>>
    \/ EndOfEvents /\ UNCHANGED <<weatherVars, routingVars>>

Spec == Init /\ [][Next]_vars

\* any caller: sessions and runners created at will, turns on any of them
NextSessions ==
    \/ \E a \in AppNames, u \in UserIds, s \in SessionIds :
           CreateSessionAndRunner(a, u, s) /\ UNCHANGED <<weatherVars, routingVars>>
    \/ \E q \in Queries, r \in 1..MaxStores, u \in UserIds, s \in SessionIds :
           CallAgentAsync(q, r, u, s) /\ UNCHANGED <<weatherVars, routingVars>>
    \/ \E e \in SessionEvents : PullEvent(e) /\ UNCHANGED <<weatherVars, routingVars>>
    \/ EndOfEvents /\ UNCHANGED <<weatherVars, routingVars>>

SpecSessions == Init /\ [][NextSessions]_vars

NextWeather ==
    \/ \E f \in CityFragments : TypeFragment(f) /\ UNCHANGED <<routingVars, turnVars>>
    \/ CallGetWeather /\ UNCHANGED <<routingVars, turnVars>>
    \/ NextCity /\ UNCHANGED <<routingVars, turnVars>>

SpecWeather == Init /\ [][NextWeather]_vars

NextRouting ==
    \/ \E u \in Utterances, c \in Classes :
           StartResolve(u, c) /\ UNCHANGED <<weatherVars, turnVars>>
    \/ Delegate /\ UNCHANGED <<weatherVars, turnVars>>
    \/ HandleOwn /\ UNCHANGED <<weatherVars, turnVars>>
    \/ Decline /\ UNCHANGED <<weatherVars, turnVars>>
    \/ CallTool /\ UNCHANGED <<weatherVars, turnVars>>
    \/ FinishTurn /\ UNCHANGED <<weatherVars, turnVars>>

SpecRouting == Init /\ [][NextRouting]_vars

-----------------------------------------------------------------------------
(* Properties of a turn (Spec) *)

\* the history of the session the running or last call works on
History == stores[runner].history

Called == pc \in {"loop", "done"}

\* C1: between the start and the return of a call on an existing session the
\* session history grows by exactly one user Message, the call's query, and by
\* at most one agent Message, whatever events the engine produced.
C1_OneUserAtMostOneAgentMessage ==
    Called =>
        LET n == Len(hist0) IN
        /\ Len(History) \in {n + 1, n + 2}
        /\ SubSeq(History, 1, n) = hist0
        /\ History[n + 1] = [role |-> "user", text |-> Str(query)]
        /\ Len(History) = n + 2 => History[n + 2].role = "agent"

C1_Witness ==
    /\ pc = "done"
    /\ pulled >= 2
    /\ hist0 # <<>>
    /\ Len(History) = Len(hist0) + 2

\* C2: consumption stops at the first final-response event: while the loop
\* runs no final event has been seen and the events pulled so far have left
\* the result untouched; once a final event is seen the call has returned, that
\* event is the last one pulled, and the value returned is the text captured
\* from it.
C2_StopsAtFirstFinalEvent ==
    /\ pc = "loop" =>
           /\ firstFinal = 0
           /\ final_response_text = Str(<<"[warn]", " Agent khong tao ra response.">>)
    /\ (Called /\ firstFinal # 0) =>
           /\ pc = "done"
           /\ pulled = firstFinal
           /\ event = firstFinalEvent
           /\ response = final_response_text
           /\ HasParts(firstFinalEvent) =>
                  response = firstFinalEvent.content.parts.items[1].text

C2_Witness ==
    /\ pc = "done"
    /\ firstFinal = 2
    /\ pulled < MaxEvents
    /\ response = Str(Hello)

C4_NoFinalEventGivesFallback ==
    (pc = "done" /\ firstFinal = 0) =>
        /\ response = Str(<<"[warn]", " Agent khong tao ra response.">>)
        /\ History = Append(hist0, [role |-> "user", text |-> Str(query)])

C4_Witness ==
    /\ pc = "done"
    /\ firstFinal = 0
    /\ pulled >= 2
    /\ Escalates(event)

\* C5 as stated: every call that returns yields a string: the final event's
\* text, the escalation warning or the no-response fallback, for every shape of
\* final event.
C5_AlwaysReturnsAString ==
    pc = "done" =>
        /\ response.kind = "str"
        /\ \/ firstFinal # 0 /\ HasParts(firstFinalEvent)
                /\ response = firstFinalEvent.content.parts.items[1].text
           \/ firstFinal # 0 /\ response = Str(EscalatedText(firstFinalEvent))
           \/ response = Str(NoResponseText)

\* C10: content takes precedence over escalation.  A first final event with
\* content parts yields its first part's text even when it has the escalate
\* flag; without content parts it yields the escalation warning if the flag is
\* set and the no-response fallback if not; an event with the escalate flag
\* that is not a final response is skipped like any intermediate event.
C10_ContentBeforeEscalation ==
    /\ (pc = "done" /\ firstFinal # 0) =>
           LET e == firstFinalEvent
               m == e.error_message IN
           /\ HasParts(e) => response = e.content.parts.items[1].text
           /\ (~HasParts(e) /\ Escalates(e)) =>
                  response = Str(<<"[warn]", " Agent escalated: ">>
                      \o (IF m.kind = "str" /\ m.chars # <<>> THEN m.chars
                          ELSE <<"Khong co message.">>))
           /\ (~HasParts(e) /\ ~Escalates(e)) =>
                  response = Str(<<"[warn]", " Agent khong tao ra response.">>)
    /\ (Called /\ event # NoEvent /\ Escalates(event) /\ ~event.final) =>
           /\ firstFinal = 0
           /\ final_response_text = Str(<<"[warn]", " Agent khong tao ra response.">>)
           /\ History = Append(hist0, [role |-> "user", text |-> Str(query)])

C10_Witness ==
    /\ pc = "done"
    /\ firstFinal # 0
    /\ HasParts(firstFinalEvent)
    /\ Escalates(firstFinalEvent)
    /\ firstFinalEvent.error_message = Str(InternalTimeout)
    /\ response = Str(Hello)

-----------------------------------------------------------------------------
(* Property of session creation (SpecSessions) *)

\* C8 as stated: creating a session again with an identity that already has a
\* session yields that session's history as it was.
C8_CreateAgainKeepsHistory ==
    [][Len(stores') = Len(stores) + 1 =>
          \A i \in 1..Len(stores) :
              stores[i].ident = stores'[Len(stores')].ident =>
                  stores'[Len(stores')].history = stores[i].history]_vars

-----------------------------------------------------------------------------
(* Property of get_weather (SpecWeather) *)

\* C6: get_weather returns one dict for every city: when the lower-cased city
\* without its spaces is a key of the table, status 'success' with a non-empty
\* report; otherwise status 'error' with a non-empty error_message that holds
\* the city as the caller supplied it, and no report.
C6_WeatherResultShape ==
    weather_result # NotCalled =>
        IF RemoveSpaces(Lower(city)) \in DOMAIN mock_weather_db
        THEN /\ DOMAIN weather_result = {"status", "report"}
             /\ weather_result.status = "success"
             /\ weather_result.report # <<>>
        ELSE /\ DOMAIN weather_result = {"status", "error_message"}
             /\ weather_result.status = "error"
             /\ weather_result.error_message # <<>>
             /\ Contains(weather_result.error_message, city)

C6_Witness ==
    /\ weather_result # NotCalled
    /\ weather_result.status = "success"
    /\ \E i \in 1..Len(city) : city[i] = " "
    /\ Lower(city) # city

-----------------------------------------------------------------------------
(* Property of routing (SpecRouting) *)

\* C7: in a turn classified as a greeting (a farewell) control passes to
\* greeting_agent (farewell_agent) and stays there for the rest of the turn,
\* get_weather is never invoked, every tool invoked is one of that child's own,
\* and the child does not delegate further.
C7_GreetingsAndFarewellsNeverReachWeather ==
    \A class \in {"greeting", "farewell"} :
        (r_pc # "idle" /\ utterance_class = class) =>
            LET child == IF class = "greeting" THEN "greeting_agent" ELSE "farewell_agent"
                own == IF class = "greeting" THEN {"say_hello"} ELSE {"say_goodbye"}
            IN
            /\ hops <= 1
            /\ hops = 1 => active_agent = child
            /\ r_pc \in {"handling", "finished"} => active_agent = child
            /\ \A i \in 1..Len(tool_calls) :
                   /\ tool_calls[i].tool # "get_weather"
                   /\ tool_calls[i].agent = child
                   /\ tool_calls[i].tool \in own

C7_Witness ==
    /\ utterance_class = "greeting"
    /\ r_pc = "finished"
    /\ hops = 1
    /\ Len(tool_calls) >= 1
    /\ tool_calls[1].tool = "say_hello"

====
